---- MODULE Spec2Model ----
(***************************************************************************)
(* URL Download App (src/main.py): the App window's download operation,    *)
(* its URL resolver, its destination-path normaliser, its progress         *)
(* callback and the host event loop that the callback pumps.               *)
(*                                                                         *)
(* Texts are TLA+ strings, handled character by character with Len,        *)
(* SubSeq and \o.  URLs are over letters, digits and : / ? # & = . % + [ ] *)
(* (no ';', no blanks, no control characters, no non-ASCII escapes).       *)
(***************************************************************************)
EXTENDS Integers, Sequences, FiniteSets, TLC

(***************************************************************************)
(* Text helpers: Python's slices, str.find, str.rfind, str.split and       *)
(* str.replace.  The recursive ones are functions, whose arguments are     *)
(* values.                                                                 *)
(***************************************************************************)
\* s[i-1:j] of Python, on a string.
Sub(s, i, j) ==
    LET k == IF j > Len(s) THEN Len(s) ELSE j
    IN  IF i > k THEN "" ELSE SubSeq(s, i, k)

Ch(s, i) == Sub(s, i, i)

From(s, i) == Sub(s, i, Len(s))

\* s.find(c, i-1) + 1: the first place of c in s from place i on, 0 if none.
FindFrom[s \in STRING, c \in STRING, i \in Nat] ==
    IF i > Len(s) THEN 0
    ELSE IF Ch(s, i) = c THEN i
    ELSE FindFrom[s, c, i + 1]

Find(s, c) == FindFrom[s, c, 1]

RFindFrom[s \in STRING, c \in STRING, i \in Nat] ==
    IF i < 1 THEN 0
    ELSE IF Ch(s, i) = c THEN i
    ELSE RFindFrom[s, c, i - 1]

RFind(s, c) == RFindFrom[s, c, Len(s)]

Split[s \in STRING, c \in STRING] ==
    LET i == Find(s, c)
    IN  IF i = 0 THEN <<s>>
        ELSE <<Sub(s, 1, i - 1)>> \o Split[From(s, i + 1), c]

PlusToSpace[s \in STRING] ==
    IF Len(s) = 0 THEN ""
    ELSE (IF Ch(s, 1) = "+" THEN " " ELSE Ch(s, 1)) \o PlusToSpace[From(s, 2)]

(***************************************************************************)
(* urllib.parse.unquote on ASCII escapes: %XX with two hex digits becomes  *)
(* the character of that code, anything else is copied.  Codes outside     *)
(* printable ASCII, and the double quote, the backslash and the backquote, *)
(* are not modelled.                                                       *)
(***************************************************************************)
HexDigits == "0123456789abcdef"

HexUpper == "0123456789ABCDEF"

AsciiLow == " !"

AsciiMid == "#$%&'()*+,-./0123456789:;<=>?@ABCDEFGHIJKLMNOPQRSTUVWXYZ["

AsciiHigh == "]^_"

AsciiLetters == "abcdefghijklmnopqrstuvwxyz{|}~"

IsHex(c) == Find(HexDigits, c) > 0 \/ Find(HexUpper, c) > 0

HexVal(c) ==
    IF Find(HexDigits, c) > 0 THEN Find(HexDigits, c) - 1 ELSE Find(HexUpper, c) - 1

CharOfCode(n) ==
    IF n >= 32 /\ n <= 33 THEN Ch(AsciiLow, n - 31)
    ELSE IF n >= 35 /\ n <= 91 THEN Ch(AsciiMid, n - 34)
    ELSE IF n >= 93 /\ n <= 95 THEN Ch(AsciiHigh, n - 92)
    ELSE IF n >= 97 /\ n <= 126 THEN Ch(AsciiLetters, n - 96)
    ELSE "<other>"

Unquote[s \in STRING] ==
    IF Len(s) = 0 THEN ""
    ELSE IF Ch(s, 1) = "%" /\ Len(s) >= 3 /\ IsHex(Ch(s, 2)) /\ IsHex(Ch(s, 3))
         THEN CharOfCode(16 * HexVal(Ch(s, 2)) + HexVal(Ch(s, 3))) \o Unquote[From(s, 4)]
    ELSE Ch(s, 1) \o Unquote[From(s, 2)]

(***************************************************************************)
(* urllib.parse.urlparse: scheme, netloc, path, query, fragment.  ok is    *)
(* FALSE where urlparse raises ValueError (a bracket without its partner   *)
(* in the netloc).                                                         *)
(***************************************************************************)
Letters == "abcdefghijklmnopqrstuvwxyzABCDEFGHIJKLMNOPQRSTUVWXYZ"

SchemeChars == "abcdefghijklmnopqrstuvwxyzABCDEFGHIJKLMNOPQRSTUVWXYZ0123456789+-."

MinPos(a, b) == IF a = 0 THEN b ELSE IF b = 0 THEN a ELSE IF a < b THEN a ELSE b

\* The scheme, if the text before the first ':' is one.
SplitScheme[url \in STRING] ==
    LET i == Find(url, ":")
    IN  IF /\ i > 1
           /\ Find(Letters, Ch(url, 1)) > 0
           /\ \A k \in 1..(i - 1) : Find(SchemeChars, Ch(url, k)) > 0
        THEN [scheme |-> Sub(url, 1, i - 1), rest |-> From(url, i + 1)]
        ELSE [scheme |-> "", rest |-> url]

\* The netloc, if the text starts with "//": up to the first of / ? #.
SplitNetloc[url \in STRING] ==
    LET delim == MinPos(FindFrom[url, "/", 3],
                        MinPos(FindFrom[url, "?", 3], FindFrom[url, "#", 3]))
    IN  IF Sub(url, 1, 2) # "//" THEN [netloc |-> "", rest |-> url]
        ELSE IF delim = 0 THEN [netloc |-> From(url, 3), rest |-> ""]
        ELSE [netloc |-> Sub(url, 3, delim - 1), rest |-> From(url, delim)]

\* s split at the first c: what is before it, and what is after it.
Before[s \in STRING, c \in STRING] ==
    LET i == Find(s, c)
    IN  IF i = 0 THEN s ELSE Sub(s, 1, i - 1)

After[s \in STRING, c \in STRING] ==
    LET i == Find(s, c)
    IN  IF i = 0 THEN "" ELSE From(s, i + 1)

UrlParseParts[scheme \in STRING, netloc \in STRING, rest \in STRING] ==
    LET url == Before[rest, "#"]
    IN  [ok |-> (Find(netloc, "[") > 0) = (Find(netloc, "]") > 0),
         scheme |-> scheme, netloc |-> netloc,
         path |-> Before[url, "?"],
         query |-> After[url, "?"],
         fragment |-> After[rest, "#"]]

NetlocSplits == [netloc : STRING, rest : STRING]

SchemeSplits == [scheme : STRING, rest : STRING]

UrlParseRest[scheme \in STRING, nl \in NetlocSplits] ==
    UrlParseParts[scheme, nl.netloc, nl.rest]

UrlParseScheme[ss \in SchemeSplits] ==
    UrlParseRest[ss.scheme, SplitNetloc[ss.rest]]

UrlParse(url) == UrlParseScheme[SplitScheme[url]]

ParsedUrls ==
    [ok : BOOLEAN, scheme : STRING, netloc : STRING, path : STRING,
     query : STRING, fragment : STRING]

(***************************************************************************)
(* urllib.parse.parse_qs restricted to one name: the values, in order, of  *)
(* the pairs of the query whose decoded name is `name`.  A pair without    *)
(* '=' or with an empty value is dropped (keep_blank_values is False).     *)
(***************************************************************************)
QsValue[nv \in STRING, name \in STRING] ==
    LET value == After[nv, "="]
    IN  IF /\ Find(nv, "=") > 0
           /\ Len(value) > 0
           /\ Unquote[PlusToSpace[Before[nv, "="]]] = name
        THEN <<Unquote[PlusToSpace[value]]>>
        ELSE <<>>

QsValues[pairs \in Seq(STRING), name \in STRING] ==
    IF Len(pairs) = 0 THEN <<>>
    ELSE QsValue[Head(pairs), name] \o QsValues[Tail(pairs), name]

ParseQs(query, name) == QsValues[Split[query, "&"], name]

(***************************************************************************)
(* pathlib.Path (POSIX flavour): a path is its root and its parts.         *)
(***************************************************************************)
LeadingSlashes[s \in STRING] ==
    IF Len(s) > 0 /\ Ch(s, 1) = "/" THEN 1 + LeadingSlashes[From(s, 2)] ELSE 0

DropEmptyAndDot[parts \in Seq(STRING)] ==
    IF Len(parts) = 0 THEN <<>>
    ELSE (IF Head(parts) = "" \/ Head(parts) = "." THEN <<>> ELSE <<Head(parts)>>)
         \o DropEmptyAndDot[Tail(parts)]

PathRoot[n \in Nat] == IF n = 0 THEN "" ELSE IF n = 2 THEN "//" ELSE "/"

Path(text) ==
    [root |-> PathRoot[LeadingSlashes[text]],
     parts |-> DropEmptyAndDot[Split[text, "/"]]]

JoinParts[parts \in Seq(STRING)] ==
    IF Len(parts) = 0 THEN ""
    ELSE IF Len(parts) = 1 THEN Head(parts)
    ELSE Head(parts) \o "/" \o JoinParts[Tail(parts)]

PathStr(p) ==
    IF Len(p.parts) = 0 THEN (IF p.root = "" THEN "." ELSE p.root)
    ELSE p.root \o JoinParts[p.parts]

PathName(p) == IF Len(p.parts) = 0 THEN "" ELSE p.parts[Len(p.parts)]

\* PurePath.suffix, from the path's name.
SuffixOfName[name \in STRING] ==
    LET i == RFind(name, ".")
    IN  IF 1 < i /\ i < Len(name) THEN From(name, i) ELSE ""

PathSuffix(p) == SuffixOfName[PathName(p)]

\* The name with its suffix replaced, or added when it has none.
RenameSuffix[name \in STRING, old \in STRING, suffix \in STRING] ==
    (IF old = "" THEN name ELSE Sub(name, 1, Len(name) - Len(old))) \o suffix

Names == Seq(STRING)

(* Path.with_suffix: ok is FALSE where it raises ValueError. *)
WithSuffixParts[root \in STRING, parts \in Names, name \in STRING, suffix \in STRING] ==
    IF \/ Find(suffix, "/") > 0
       \/ (suffix # "" /\ Ch(suffix, 1) # ".")
       \/ suffix = "."
       \/ name = ""
    THEN [ok |-> FALSE, path |-> [root |-> root, parts |-> parts]]
    ELSE [ok |-> TRUE,
          path |-> [root |-> root,
                    parts |-> SubSeq(parts, 1, Len(parts) - 1)
                              \o <<RenameSuffix[name, SuffixOfName[name], suffix]>>]]

WithSuffix(p, suffix) == WithSuffixParts[p.root, p.parts, PathName(p), suffix]

(***************************************************************************)
(* App.extract_media_url and App.has_extension.                            *)
(***************************************************************************)
MediaUrlKey == "mediaurl"

\* The last value instead of the first.
PickLast(values) == values[Len(values)]

\* params.get('mediaurl', [None])[0]
PickFirst(values) == values[1]

MediaUrlOf[url \in STRING, ok \in BOOLEAN, params \in Seq(STRING)] ==
    IF ~ok THEN [ok |-> FALSE, url |-> url]
    ELSE IF Len(params) > 0 /\ PickFirst(params) # ""
         THEN [ok |-> TRUE, url |-> PickFirst(params)]
    ELSE [ok |-> TRUE, url |-> url]

MediaUrlOfParsed[url \in STRING, parsed_url \in ParsedUrls] ==
    MediaUrlOf[url, parsed_url.ok, ParseQs(parsed_url.query, MediaUrlKey)]

\* ok is FALSE where urlparse raises.
extract_media_url(url) == MediaUrlOfParsed[url, UrlParse(url)]

\* The test of line 76 inverted.
HasNoExtension(file_path) == PathSuffix(file_path) = ""

has_extension(file_path) == PathSuffix(file_path) # ""

(***************************************************************************)
(* App.download, lines 84-89: the effective URL and the path handed to     *)
(* urlretrieve, from the two texts read from the widgets.  raised is TRUE  *)
(* where one of these lines raises (they are outside the try block).       *)
(***************************************************************************)
Paths == [root : STRING, parts : Seq(STRING)]

\* Lines 88-89, for the parsed effective URL.
SuffixedPaths == [ok : BOOLEAN, path : Paths]

Suffixed[url \in STRING, location \in Paths, parsed \in ParsedUrls, suffixed \in SuffixedPaths] ==
    IF ~parsed.ok \/ ~suffixed.ok
    THEN [raised |-> TRUE, url |-> url, location |-> location]
    ELSE [raised |-> FALSE, url |-> url, location |-> suffixed.path]

\* Lines 87-89.
Normalize[url \in STRING, location \in Paths, parsed \in ParsedUrls] ==
    IF has_extension(location)
    THEN [raised |-> FALSE, url |-> url, location |-> location]
    ELSE Suffixed[url, location, parsed,
                  WithSuffix(location, PathSuffix(Path(parsed.path)))]

\* Lines 85-89, for the URL that line 84 resolved.
ResolvedUrls == [ok : BOOLEAN, url : STRING]

PrepareResolved[resolved \in ResolvedUrls, location \in Paths] ==
    IF ~resolved.ok
    THEN [raised |-> TRUE, url |-> "", location |-> location]
    ELSE Normalize[resolved.url, location, UrlParse(resolved.url)]

DownloadPrepare(url_text, location_text) ==
    PrepareResolved[extract_media_url(url_text), Path(location_text)]

(***************************************************************************)
(* Bounds of the model.                                                    *)
(***************************************************************************)
\* download() calls that may be on the call stack at once (one, plus the
\* re-entrant ones started from QApplication.processEvents).
MaxDepth == 2

\* Largest Content-Length the server announces, and most bytes a body of
\* unannounced length has.
MaxTotal == 3

\* Bytes urlretrieve reads per block.
BlockSize == 2

\* Texts the user can put in the two fields of the running application.
AppUrls == {"https://example.com/x?mediaurl=https://cdn.example.com/file.bin"}

AppLocations == {"/tmp/out", ""}

(***************************************************************************)
(* State.                                                                  *)
(*   url_line_edit, location_line_edit, progress_bar: the three widgets.   *)
(*   stack: the download() calls in progress, innermost last.  A call is   *)
(*     re-entered from processEvents, and the outer call resumes when the  *)
(*     inner one has returned.                                             *)
(*   host: the Qt application, "running" or "aborted".                     *)
(*   expect: history, the value a progress callback set last, or the       *)
(*     bar's value when the latest download() started if none has since.   *)
(*   edited: history, the user has edited a field since the latest         *)
(*     download() started.                                                 *)
(*   typed: history, what the input texts were built from.                 *)
(***************************************************************************)
VARIABLES url_line_edit, location_line_edit, progress_bar, stack, host,
          expect, edited, typed

vars == <<url_line_edit, location_line_edit, progress_bar, stack, host,
          expect, edited, typed>>

NoTyped == [url |-> "none", location |-> "none"]

Top == stack[Len(stack)]

Pumping == Len(stack) > 0 /\ Top.pc \in {"pump1", "pump2"}

\* The event loop dispatches user input: from app.exec() when no download()
\* is running, from processEvents() (lines 129, 133) when one is.  A modal
\* message box takes the input of the window it belongs to.
Dispatching == host = "running" /\ (Len(stack) = 0 \/ Pumping)

SetTop(f) == [stack EXCEPT ![Len(stack)] = f]

Init ==
    /\ url_line_edit = ""
    /\ location_line_edit = ""
    /\ progress_bar = 0
    /\ stack = <<>>
    /\ host = "running"
    /\ expect = 0
    /\ edited = FALSE
    /\ typed = NoTyped

(***************************************************************************)
(* The user: typing a URL, and the browse button (App.browse), whose       *)
(* dialog returns the chosen path, or "" when cancelled.                   *)
(***************************************************************************)
TypeUrl ==
    /\ Dispatching
    /\ \E u \in AppUrls : url_line_edit' = u
    /\ edited' = TRUE
    /\ UNCHANGED <<location_line_edit, progress_bar, stack, host, expect, typed>>

browse ==
    /\ Dispatching
    /\ \E location \in AppLocations : location_line_edit' = location
    /\ edited' = TRUE
    /\ UNCHANGED <<url_line_edit, progress_bar, stack, host, expect, typed>>

(***************************************************************************)
(* The download button: App.download up to the call of urlretrieve.        *)
(***************************************************************************)
\* Lines 84-92 with the URL field cleared before line 84 reads it.
ClearThenRead(url_text, location_text) ==
    [prepared |-> DownloadPrepare("", location_text),
     url_text |-> "", location_text |-> ""]

\* Lines 84-92: what download() has computed, and what it has left in the
\* two fields, when it calls urlretrieve.
ReadThenClear(url_text, location_text) ==
    [prepared |-> DownloadPrepare(url_text, location_text),
     url_text |-> "", location_text |-> ""]

NewFrame(prepared) ==
    [in_url |-> url_line_edit, in_location |-> location_line_edit,
     url |-> prepared.url, location |-> prepared.location,
     pc |-> "open", size |-> 0, bs |-> BlockSize, blocknum |-> 0,
     result |-> "pending", notes |-> <<>>]

DownloadStart ==
    /\ Dispatching
    /\ Len(stack) < MaxDepth
    /\ LET r == ReadThenClear(url_line_edit, location_line_edit)
       IN  /\ ~r.prepared.raised
           /\ stack' = stack \o <<NewFrame(r.prepared)>>
           /\ url_line_edit' = r.url_text
           /\ location_line_edit' = r.location_text
    /\ expect' = progress_bar
    /\ edited' = FALSE
    /\ UNCHANGED <<progress_bar, host, typed>>

\* Lines 84-89 raise: nothing in download() catches it, and PyQt5 (since
\* 5.5, with the default sys.excepthook) ends the application with qFatal().
DownloadRaises ==
    /\ Dispatching
    /\ Len(stack) < MaxDepth
    /\ DownloadPrepare(url_line_edit, location_line_edit).raised
    /\ host' = "aborted"
    /\ UNCHANGED <<url_line_edit, location_line_edit, progress_bar, stack,
                   expect, edited, typed>>

(***************************************************************************)
(* urllib.request.urlretrieve(url, location, self.handle_progress), as     *)
(* download() sees it: it opens the URL, reports block 0, then reads       *)
(* blocks of bs bytes, reporting after each, until the body ends; it       *)
(* raises ContentTooShortError (a URLError) when the body is shorter than  *)
(* the Content-Length.  size is the Content-Length, -1 when there is none. *)
(* A body never exceeds its Content-Length, and every block but the last   *)
(* is full, so after blocknum blocks the bytes read are more than          *)
(* (blocknum - 1) * bs and at most blocknum * bs.                          *)
(***************************************************************************)
ErrorKinds == {"URLError", "Exception"}

\* Lines 99-103: the except clause an exception of the fetch reaches, and
\* the warning it shows.
Warning(kind) == IF kind = "URLError" THEN "warning_network" ELSE "warning_generic"

Raise(f, kind) ==
    [f EXCEPT !.pc = "warning", !.result = kind, !.notes = @ \o <<Warning(kind)>>]

\* Line 96, reached when urlretrieve returns.
Succeed(f) ==
    [f EXCEPT !.pc = "information", !.result = "ok", !.notes = @ \o <<"information">>]

\* urlopen refuses a URL that names no scheme (ValueError, unknown url type).
HasUrlType(url) == SplitScheme[url].scheme # ""

FetchOpen ==
    /\ host = "running"
    /\ Len(stack) > 0
    /\ Top.pc = "open"
    /\ \/ /\ HasUrlType(Top.url)
          /\ \E size \in (-1)..MaxTotal :
                stack' = SetTop([Top EXCEPT !.pc = "callback", !.size = size])
       \/ /\ HasUrlType(Top.url)
          /\ stack' = SetTop(Raise(Top, "URLError"))
       \/ stack' = SetTop(Raise(Top, "Exception"))
    /\ UNCHANGED <<url_line_edit, location_line_edit, progress_bar, host,
                   expect, edited, typed>>

\* More of the body may follow the blocks read so far.
MayFollow(f) ==
    f.blocknum * f.bs < (IF f.size >= 0 THEN f.size ELSE MaxTotal)

\* The body may end here having all of its announced length.
MayBeWhole(f) == f.size < 0 \/ f.blocknum * f.bs >= f.size

\* The body may end here short of its announced length.
MayBeShort(f) ==
    f.size >= 0 /\ (IF f.blocknum = 0 THEN 0 ELSE (f.blocknum - 1) * f.bs + 1) < f.size

FetchRead ==
    /\ host = "running"
    /\ Len(stack) > 0
    /\ Top.pc = "reading"
    /\ \/ /\ MayFollow(Top)
          /\ stack' = SetTop([Top EXCEPT !.pc = "callback", !.blocknum = @ + 1])
       \/ \E kind \in ErrorKinds : stack' = SetTop(Raise(Top, kind))
       \/ /\ MayBeShort(Top)
          /\ stack' = SetTop(Raise(Top, "URLError"))
       \/ /\ MayBeWhole(Top)
          /\ stack' = SetTop(Succeed(Top))
    /\ UNCHANGED <<url_line_edit, location_line_edit, progress_bar, host,
                   expect, edited, typed>>

(***************************************************************************)
(* App.handle_progress(block_number, block_size, total_size).              *)
(***************************************************************************)
\* Lines 125-127 without the clamp of lines 126-127.
PercentUnclamped(read, total_size) == (read * 100) \div total_size

\* Lines 125-127.
Percent(read, total_size) ==
    LET percent == (read * 100) \div total_size
    IN  IF percent > 100 THEN 100 ELSE percent

\* Line 131.
Finished(read, total_size) == read >= total_size

\* Lines 123-129, or 123-133 when total_size is not positive: up to the
\* first processEvents the call reaches.
HandleProgress ==
    /\ host = "running"
    /\ Len(stack) > 0
    /\ Top.pc = "callback"
    /\ LET read == Top.blocknum * Top.bs
           total_size == Top.size
       IN  IF total_size > 0
           THEN /\ progress_bar' = Percent(read, total_size)
                /\ expect' = Percent(read, total_size)
                /\ stack' = SetTop([Top EXCEPT !.pc = "pump1"])
           ELSE IF Finished(read, total_size)
           THEN /\ progress_bar' = 100
                /\ expect' = 100
                /\ stack' = SetTop([Top EXCEPT !.pc = "pump2"])
           ELSE /\ UNCHANGED <<progress_bar, expect>>
                /\ stack' = SetTop([Top EXCEPT !.pc = "reading"])
    /\ UNCHANGED <<url_line_edit, location_line_edit, host, edited, typed>>

\* processEvents of line 129 returns; lines 131-133 up to the next one.
PumpReturn1 ==
    /\ host = "running"
    /\ Len(stack) > 0
    /\ Top.pc = "pump1"
    /\ IF Finished(Top.blocknum * Top.bs, Top.size)
       THEN /\ progress_bar' = 100
            /\ expect' = 100
            /\ stack' = SetTop([Top EXCEPT !.pc = "pump2"])
       ELSE /\ UNCHANGED <<progress_bar, expect>>
            /\ stack' = SetTop([Top EXCEPT !.pc = "reading"])
    /\ UNCHANGED <<url_line_edit, location_line_edit, host, edited, typed>>

\* processEvents of line 133 returns, and handle_progress with it.
PumpReturn2 ==
    /\ host = "running"
    /\ Len(stack) > 0
    /\ Top.pc = "pump2"
    /\ stack' = SetTop([Top EXCEPT !.pc = "reading"])
    /\ UNCHANGED <<url_line_edit, location_line_edit, progress_bar, host,
                   expect, edited, typed>>

(***************************************************************************)
(* The end of App.download: the user closes the modal message box.         *)
(***************************************************************************)
Pop == SubSeq(stack, 1, Len(stack) - 1)

\* Lines 96-97: the information box returns, the bar is reset.
DownloadCompleted ==
    /\ host = "running"
    /\ Len(stack) > 0
    /\ Top.pc = "information"
    /\ progress_bar' = 0
    /\ stack' = Pop
    /\ UNCHANGED <<url_line_edit, location_line_edit, host, expect, edited, typed>>

\* Lines 100 and 103: the warning box returns.
DownloadFailed ==
    /\ host = "running"
    /\ Len(stack) > 0
    /\ Top.pc = "warning"
    /\ stack' = Pop
    /\ UNCHANGED <<url_line_edit, location_line_edit, progress_bar, host,
                   expect, edited, typed>>

Next ==
    \/ TypeUrl
    \/ browse
    \/ DownloadStart
    \/ DownloadRaises
    \/ FetchOpen
    \/ FetchRead
    \/ HandleProgress
    \/ PumpReturn1
    \/ PumpReturn2
    \/ DownloadCompleted
    \/ DownloadFailed

Spec == Init /\ [][Next]_vars

(***************************************************************************)
(* The progress callback alone: handle_progress called once, with any      *)
(* block number, block size and total size, on any value of the bar.       *)
(***************************************************************************)
\* Block numbers, block sizes and total sizes tried, besides the ones of
\* the documented examples.
MaxBlockArg == 4

MaxSizeArg == 3

MaxTotalArg == 7

ProgressBlocks == 0..MaxBlockArg \cup {5, 10}

ProgressBlockSizes == 0..MaxSizeArg \cup {1024, 8192}

ProgressTotals == (-2)..MaxTotalArg \cup {100, 10240}

ProgressBars == {0, 37, 100}

ProgressInit ==
    /\ url_line_edit = ""
    /\ location_line_edit = ""
    /\ progress_bar \in ProgressBars
    /\ \E block_number \in ProgressBlocks, block_size \in ProgressBlockSizes,
          total_size \in ProgressTotals :
          stack = <<[NewFrame([url |-> "", location |-> Path("")])
                     EXCEPT !.pc = "callback", !.blocknum = block_number,
                            !.bs = block_size, !.size = total_size]>>
    /\ host = "running"
    /\ expect = progress_bar
    /\ edited = FALSE
    /\ typed = NoTyped

ProgressNext ==
    \/ HandleProgress
    \/ PumpReturn1
    \/ PumpReturn2

SpecProgress == ProgressInit /\ [][ProgressNext]_vars

\* handle_progress has set what it sets (it is in, or past, processEvents).
Reported == Len(stack) > 0 /\ Top.pc \in {"pump1", "pump2", "reading"}

\* C1: a progress notification with total_size <= 0 produces no percentage:
\* the bar's value after the call is its value before the call.
C1_UnknownTotalLeavesBar ==
    [][(Len(stack) > 0 /\ Top.pc = "callback" /\ Top.size <= 0)
         => progress_bar' = progress_bar]_vars

\* C2: with total_size > 0 the bar is left at
\* min(100, floor(block_number * block_size * 100 / total_size)): never above
\* 100, exactly 100 once block_number * block_size >= total_size, and
\* (5, 1024, 10240) gives 50, (10, 1024, 10240) gives 100.
C2_PercentClamped ==
    (Reported /\ Top.size > 0) =>
        LET read == Top.blocknum * Top.bs
        IN  /\ progress_bar >= 0
            /\ progress_bar <= 100
            /\ read >= Top.size => progress_bar = 100
            /\ read < Top.size =>
                   /\ progress_bar * Top.size <= read * 100
                   /\ read * 100 < (progress_bar + 1) * Top.size
            /\ (Top.blocknum = 5 /\ Top.bs = 1024 /\ Top.size = 10240)
                   => progress_bar = 50
            /\ (Top.blocknum = 10 /\ Top.bs = 1024 /\ Top.size = 10240)
                   => progress_bar = 100

C2_Witness ==
    /\ Reported
    /\ Top.pc = "reading"
    /\ Top.blocknum = 5 /\ Top.bs = 1024 /\ Top.size = 10240
    /\ progress_bar = 50

(***************************************************************************)
(* The download button alone, pressed once on any input texts.  The texts  *)
(* are written out from their components, so that what each means is       *)
(* known without parsing it:                                               *)
(*   a URL is a prefix (scheme, host, path), query pairs and a fragment;   *)
(*   ext is the extension of the path component of the text, val the       *)
(*   value a raw query value stands for (its percent-decoding), name the   *)
(*   name a raw key stands for;                                            *)
(*   a destination is a text, the path `norm` it denotes and the extension *)
(*   ext of its file name ("" when it has none).                           *)
(***************************************************************************)
\* Most query pairs of a URL.
MaxPairs == 2

UrlPrefixes ==
    {[text |-> "https://example.com/x", ext |-> ""],
     [text |-> "https://c.com", ext |-> ""],
     [text |-> "h/report.tar.gz", ext |-> ".gz"],
     [text |-> "http://[h/x.t", ext |-> ".t"]}

QueryKeys ==
    {[raw |-> "mediaurl", name |-> "mediaurl"],
     [raw |-> "media%75rl", name |-> "mediaurl"],
     [raw |-> "MEDIAURL", name |-> "MEDIAURL"]}

QueryValues ==
    {[raw |-> "", val |-> "", ext |-> ""],
     [raw |-> "https://cdn.example.com/file.bin",
      val |-> "https://cdn.example.com/file.bin", ext |-> ".bin"],
     [raw |-> "http://c/a+b.z%3Fmediaurl%3Dw.q",
      val |-> "http://c/a b.z?mediaurl=w.q", ext |-> ".z"]}

\* A pair is key=value, or the key alone: the plain key with every value,
\* every key with the first example's value, and the plain key alone.
QueryPairs ==
    [key : {[raw |-> "mediaurl", name |-> "mediaurl"]}, eq : {TRUE},
     value : QueryValues]
    \cup [key : QueryKeys, eq : {TRUE},
          value : {[raw |-> "https://cdn.example.com/file.bin",
                    val |-> "https://cdn.example.com/file.bin", ext |-> ".bin"]}]
    \cup [key : {[raw |-> "mediaurl", name |-> "mediaurl"]}, eq : {FALSE},
          value : {[raw |-> "", val |-> "", ext |-> ""]}]

Fragments == {"", "#mediaurl=frag.f"}

TypedUrls ==
    [prefix : UrlPrefixes,
     pairs : UNION {[1..n -> QueryPairs] : n \in 0..MaxPairs},
     fragment : Fragments]

TypedLocations ==
    {[text |-> "/tmp/out", norm |-> "/tmp/out", ext |-> ""],
     [text |-> "/tmp/report.txt", norm |-> "/tmp/report.txt", ext |-> ".txt"],
     [text |-> "/tmp//a.b/out/", norm |-> "/tmp/a.b/out", ext |-> ""],
     [text |-> "./.hidden", norm |-> ".hidden", ext |-> ""],
     [text |-> "out.tar.gz", norm |-> "out.tar.gz", ext |-> ".gz"],
     [text |-> "", norm |-> ".", ext |-> ""]}

RenderPair(pair) ==
    pair.key.raw \o (IF pair.eq THEN "=" \o pair.value.raw ELSE "")

RECURSIVE RenderPairs(_)
RenderPairs(pairs) ==
    IF Len(pairs) = 0 THEN ""
    ELSE IF Len(pairs) = 1 THEN RenderPair(pairs[1])
    ELSE RenderPair(pairs[1]) \o "&" \o RenderPairs(Tail(pairs))

RenderUrl(u) ==
    u.prefix.text
    \o (IF Len(u.pairs) = 0 THEN "" ELSE "?" \o RenderPairs(u.pairs))
    \o u.fragment

PrepareInit ==
    /\ typed \in [url : TypedUrls, location : TypedLocations]
    /\ url_line_edit = RenderUrl(typed.url)
    /\ location_line_edit = typed.location.text
    /\ progress_bar = 0
    /\ stack = <<>>
    /\ host = "running"
    /\ expect = 0
    /\ edited = FALSE

PrepareNext ==
    \/ DownloadStart
    \/ DownloadRaises

SpecPrepare == PrepareInit /\ [][PrepareNext]_vars

\* The places of the mediaurl parameters of a typed URL, and of those with
\* a non-empty value.
MediaUrlPlaces(u) == {i \in 1..Len(u.pairs) : u.pairs[i].key.name = "mediaurl"}

FilledPlaces(u) == {i \in MediaUrlPlaces(u) : u.pairs[i].value.raw # ""}

Least(places) == CHOOSE i \in places : \A j \in places : i <= j

\* The fetch has been started on what the user typed.
Fetching == Len(stack) = 1 /\ stack[1].pc = "open"

EffectiveExt(u) ==
    IF FilledPlaces(u) # {} THEN u.pairs[Least(FilledPlaces(u))].value.ext
    ELSE u.prefix.ext

\* C4: the path handed to the fetch is the destination path itself when it
\* has an extension, and otherwise the destination path with the extension
\* of the effective URL's path component appended (nothing when that has
\* none); https://example.com/x?mediaurl=https://cdn.example.com/file.bin
\* with /tmp/out gives /tmp/out.bin.
C4_PathHandedToFetch ==
    Fetching =>
        /\ PathStr(stack[1].location) =
               IF typed.location.ext # "" THEN typed.location.norm
               ELSE typed.location.norm \o EffectiveExt(typed.url)
        /\ (/\ stack[1].in_url
                 = "https://example.com/x?mediaurl=https://cdn.example.com/file.bin"
            /\ stack[1].in_location = "/tmp/out")
               => PathStr(stack[1].location) = "/tmp/out.bin"

C4_Witness ==
    /\ Fetching
    /\ stack[1].in_url = "https://example.com/x?mediaurl=https://cdn.example.com/file.bin"
    /\ stack[1].in_location = "/tmp/out"
    /\ stack[1].url = "https://cdn.example.com/file.bin"
    /\ PathStr(stack[1].location) = "/tmp/out.bin"

(***************************************************************************)
(* The running application.                                                *)
(***************************************************************************)
\* C5: every failure of the download operation is caught inside download:
\* no error propagates out of it, and the application goes on.
C5_NoErrorEscapes == host = "running"

\* C6: each download attempt ends in exactly one of three outcomes, with
\* exactly one notification: the information box after a completed fetch,
\* the network warning after a URLError, the generic warning after any
\* other exception.
C6_OneOutcomeOneNotification ==
    [][(Len(stack') < Len(stack) \/ host' # host) =>
          /\ host' = "running"
          /\ \/ Top.result = "ok" /\ Top.notes = <<"information">>
             \/ Top.result = "URLError" /\ Top.notes = <<"warning_network">>
             \/ Top.result = "Exception" /\ Top.notes = <<"warning_generic">>]_vars

\* C7: at most one download operation is in progress, whatever the user
\* clicks while the progress callback pumps the event loop.
C7_OneTransferAtATime == Len(stack) <= 1

\* C8: when a download operation returns, the bar is 0 after a success, and
\* after a failure it is the value a progress callback set last (its value
\* when the download started if no callback set one).
C8_BarWhenDownloadReturns ==
    [][Len(stack') < Len(stack) =>
          IF Top.result = "ok" THEN progress_bar' = 0
          ELSE progress_bar' = expect]_vars

\* C9: the bar is at 100 when a fetch has returned successfully and the
\* success notification is shown; it is reset to 0 only afterwards.
C9_FullWhenFetchReturns ==
    \A i \in 1..Len(stack) : stack[i].pc = "information" => progress_bar = 100

\* C10: once a transfer has started the two fields are empty, from before
\* the fetch begins to its outcome, unless the user has edited them; the
\* fetch uses the values read before they were cleared.
\* A step that starts a transfer hands it the URL and the path computed from
\* the texts the fields held before the step; no later step changes them.
C10_FieldsClearedValuesKept ==
    [][/\ (Len(stack') > 0 /\ ~edited') =>
              (url_line_edit' = "" /\ location_line_edit' = "")
       /\ (Len(stack') > 0 /\ stack'[Len(stack')].pc = "open") =>
              (url_line_edit' = "" /\ location_line_edit' = "")
       /\ Len(stack') > Len(stack) =>
              /\ url_line_edit # "" => stack'[Len(stack')].url # ""
              /\ stack'[Len(stack')].url = extract_media_url(url_line_edit).url
              /\ stack'[Len(stack')].location
                   = DownloadPrepare(url_line_edit, location_line_edit).location
       /\ Len(stack') = Len(stack) =>
              \A i \in 1..Len(stack) :
                  /\ stack'[i].url = stack[i].url
                  /\ stack'[i].location = stack[i].location]_vars

C10_Witness ==
    /\ Len(stack) > 0
    /\ Top.pc = "information"
    /\ Top.blocknum > 0
    /\ ~edited
    /\ Top.in_url # "" /\ Top.in_location # ""
    /\ Top.url = "https://cdn.example.com/file.bin"
    /\ url_line_edit = "" /\ location_line_edit = ""
====
